---------------------------- MODULE Spec2Model ----------------------------
(***************************************************************************)
(* The streaming client of go-twitter (twitter/streams.go): one Stream,    *)
(* its retry goroutine, the callers of Stop and the consumer of Messages.  *)
(* Every shared-memory access and every channel operation of the source is *)
(* one atomic step, so that the interleavings of Stop with the goroutine   *)
(* are the behaviours of the model.                                        *)
(***************************************************************************)
EXTENDS Integers, Sequences, FiniteSets, TLC

(***************************************************************************)
(* Bounds of the model.                                                    *)
(***************************************************************************)
\* connection attempts (calls of client.Do) in one run
MaxAttempts == 3
\* tokens (keep-alives included) the server puts on the wire in one run
MaxReads == 2

\* keys in one JSON object given to the classifier
MaxKeys == 2
\* calls of getMessage on one token
MaxCalls == 2

\* the goroutines that call Stop on the Stream
Callers == {"c1", "c2"}

(***************************************************************************)
(* Tokens and the classifier (getMessage, decodeMessage, hasPath).         *)
(* A token is described by what encoding/json makes of it: its length, the *)
(* kind of JSON value it holds, the top-level keys of the object, and      *)
(* whether the object decodes into the struct its key selects.             *)
(***************************************************************************)
Tok(len, kind, keys, fits) ==
    [len |-> len, kind |-> kind, keys |-> keys, fits |-> fits]

KeepAlive == Tok(0, "none", {}, TRUE)
TweetTok == Tok(1, "object", {"retweet_count", "text"}, TRUE)
MalformedTok == Tok(1, "malformed", {}, TRUE)
DeleteLimitTok == Tok(1, "object", {"delete", "limit"}, TRUE)
UnknownTok == Tok(1, "object", {"unrecognized_key"}, TRUE)
BadShapeTok == Tok(1, "object", {"friends"}, FALSE)
NullTok == Tok(1, "null", {}, TRUE)
ArrayTok == Tok(1, "array", {}, TRUE)

\* the tokens the server sends in the runs of the stream
WireTokens == {KeepAlive, TweetTok, MalformedTok}

\* the keys decodeMessage looks for, and two it does not know
KnownKeys ==
    {"retweet_count", "direct_message", "delete", "scrub_geo", "limit",
     "status_withheld", "user_withheld", "disconnect", "warning", "friends",
     "event", "matching_rules"}
Keys == KnownKeys \cup {"text", "unrecognized_key"}

\* the tokens getMessage is applied to: every object with at most MaxKeys of
\* the keys, fitting the struct its key selects or not, and the tokens that
\* are no object
Objects ==
    {Tok(1, "object", ks, f) :
        ks \in {S \in SUBSET Keys : Cardinality(S) <= MaxKeys},
        f \in BOOLEAN}
Tokens ==
    {t \in Objects : t.fits \/ t.keys \cap KnownKeys # {}}
        \cup {KeepAlive, MalformedTok, NullTok, ArrayTok}

\* a bug: the JSON null is an error too
UnmarshalMapFails_Null(token) == token.kind # "object"

\* json.Unmarshal(token, &data) with data a map[string]interface{}: an error
\* unless the token is a JSON object or the JSON null (which leaves data nil)
UnmarshalMapFails(token) == token.kind \notin {"object", "null"}

\* the keys of the map json.Unmarshal fills
ParsedMap(token) == IF token.kind = "object" THEN token.keys ELSE {}

hasPath(data, key) == key \in data

\* a message struct decoded from the token; the result of the second
\* json.Unmarshal is dropped, so a token that does not fit the struct leaves
\* the struct partially populated
Decoded(variant, token) == [variant |-> variant, complete |-> token.fits]

\* a bug: limit is looked for before delete
decodeMessage_LimitFirst(token, data) ==
    IF hasPath(data, "retweet_count") THEN Decoded("Tweet", token)
    ELSE IF hasPath(data, "direct_message") THEN Decoded("DirectMessage", token)
    ELSE IF hasPath(data, "limit") THEN Decoded("StreamLimit", token)
    ELSE IF hasPath(data, "delete") THEN Decoded("StatusDeletion", token)
    ELSE IF hasPath(data, "scrub_geo") THEN Decoded("LocationDeletion", token)
    ELSE IF hasPath(data, "status_withheld") THEN Decoded("StatusWithheld", token)
    ELSE IF hasPath(data, "user_withheld") THEN Decoded("UserWithheld", token)
    ELSE IF hasPath(data, "disconnect") THEN Decoded("StreamDisconnect", token)
    ELSE IF hasPath(data, "warning") THEN Decoded("StallWarning", token)
    ELSE IF hasPath(data, "friends") THEN Decoded("FriendsList", token)
    ELSE IF hasPath(data, "event") THEN Decoded("Event", token)
    ELSE IF hasPath(data, "matching_rules") THEN Decoded("StreamData", token)
    ELSE [variant |-> "Map", data |-> data]

decodeMessage(token, data) ==
    IF hasPath(data, "retweet_count") THEN Decoded("Tweet", token)
    ELSE IF hasPath(data, "direct_message") THEN Decoded("DirectMessage", token)
    ELSE IF hasPath(data, "delete") THEN Decoded("StatusDeletion", token)
    ELSE IF hasPath(data, "scrub_geo") THEN Decoded("LocationDeletion", token)
    ELSE IF hasPath(data, "limit") THEN Decoded("StreamLimit", token)
    ELSE IF hasPath(data, "status_withheld") THEN Decoded("StatusWithheld", token)
    ELSE IF hasPath(data, "user_withheld") THEN Decoded("UserWithheld", token)
    ELSE IF hasPath(data, "disconnect") THEN Decoded("StreamDisconnect", token)
    ELSE IF hasPath(data, "warning") THEN Decoded("StallWarning", token)
    ELSE IF hasPath(data, "friends") THEN Decoded("FriendsList", token)
    ELSE IF hasPath(data, "event") THEN Decoded("Event", token)
    ELSE IF hasPath(data, "matching_rules") THEN Decoded("StreamData", token)
    ELSE [variant |-> "Map", data |-> data]

getMessage(token) ==
    IF UnmarshalMapFails(token)
    THEN [variant |-> "UnmarshalError"]
    ELSE decodeMessage(token, ParsedMap(token))

\* the error client.Do returns, as a value on Messages
TransportError == [variant |-> "TransportError"]

(***************************************************************************)
(* The two backoff policies (newExponentialBackOff and                     *)
(* newAggressiveExponentialBackOff): the state of a policy is the number   *)
(* of waits it has handed out since construction or Reset.                 *)
(***************************************************************************)
\* backoff.Stop
Stop == -1

\* waits a policy hands out before it signals Stop
ExpMaxRetries == 2
AggMaxRetries == 2

ExpInterval(n) == n + 1
AggInterval(n) == 10 * (n + 1)

ExpNextBackOff(n) == IF n >= ExpMaxRetries THEN Stop ELSE ExpInterval(n)
AggNextBackOff(n) == IF n >= AggMaxRetries THEN Stop ELSE AggInterval(n)

\* the state Reset leaves a policy in
ResetState == 0

(***************************************************************************)
(* State.                                                                  *)
(***************************************************************************)
VARIABLES
    pc,             \* position of the retry goroutine
    done,           \* s.done is closed
    msgClosed,      \* s.Messages is closed
    closes,         \* number of close(s.Messages) executed
    group,          \* counter of s.group
    body,           \* s.body: 0 is nil, else the id of a response body
    closedBodies,   \* response bodies on which Close has been called
    resp,           \* retry's resp: [status, body]
    deferred,       \* retry's stack of deferred resp.Body.Close()
    wait,           \* retry's local wait
    expBackOff,     \* state of the normal policy
    aggExpBackOff,  \* state of the aggressive policy
    data,           \* receive's token, between readNext and the send
    attempts,       \* calls of client.Do so far
    reads,          \* tokens read so far
    wire,           \* history: the non-empty tokens readNext returned, in
                    \* order, each with the body it was read from
    received,       \* the values the consumer received from Messages
    stopPc,         \* position of each caller in Stop
    seen,           \* the value of s.body each caller loaded in Stop
    panicked,       \* a goroutine panicked: the process is gone
    responses,      \* history: the status client.Do answered each attempt
                    \* with (NoStatus: an error instead of a response)
    stopAt,         \* history: what retry did when s.done was closed
    unblocked,      \* history: a read ended because the body was closed
    ended,          \* history: a read ended because the server ended the
                    \* stream or the connection broke
    waits           \* history: the waits the policies returned, each with
                    \* the attempt whose response it was computed for

vars == <<pc, done, msgClosed, closes, group, body, closedBodies, resp,
          deferred, wait, expBackOff, aggExpBackOff, data, attempts, reads,
          wire, received, stopPc, seen, panicked, responses, stopAt,
          unblocked, ended, waits>>

\* the history variables: written for the properties, read by no action
hist == <<responses, stopAt, unblocked, ended, waits>>

taskVars == <<pc, msgClosed, closes, group, body, closedBodies, resp,
              deferred, wait, expBackOff, aggExpBackOff, data, attempts,
              reads, wire, received>>

\* no response: client.Do returned an error
NoStatus == 0
NoResp == [status |-> NoStatus, body |-> 0]
\* receive holds no token: data is the empty slice
NoData == KeepAlive

\* newStream: the channels are open, the group counts the goroutine, which
\* is about to enter retry's loop
Init ==
    /\ pc = "loop"
    /\ done = FALSE
    /\ msgClosed = FALSE
    /\ closes = 0
    /\ group = 1
    /\ body = 0
    /\ closedBodies = {}
    /\ resp = NoResp
    /\ deferred = <<>>
    /\ wait = 0
    /\ expBackOff = ResetState
    /\ aggExpBackOff = ResetState
    /\ data = NoData
    /\ attempts = 0
    /\ reads = 0
    /\ wire = <<>>
    /\ received = <<>>
    /\ stopPc = [c \in Callers |-> "idle"]
    /\ seen = [c \in Callers |-> 0]
    /\ panicked = FALSE
    /\ responses = <<>>
    /\ stopAt = "never"
    /\ unblocked = FALSE
    /\ ended = FALSE
    /\ waits = <<>>

\* stopped(s.done): a non-blocking receive from the done channel
stopped(d) == d


Range(seq) == {seq[i] : i \in 1..Len(seq)}

\* the statuses client.Do can answer with at the given attempt: those retry
\* distinguishes (404 stands for every other status).  The last attempt of a
\* run is never answered by a status that makes retry connect again: by
\* another status, or by one whose policy is exhausted.
DoStatuses(n) ==
    IF n < MaxAttempts
    THEN {200, 503, 420, 429, 404}
    ELSE {404}
         \cup (IF ExpNextBackOff(expBackOff) = Stop THEN {503} ELSE {})
         \cup (IF AggNextBackOff(aggExpBackOff) = Stop THEN {420, 429} ELSE {})

(***************************************************************************)
(* The retry goroutine.                                                    *)
(***************************************************************************)
\* a bug: the loop of retry does not look at done
RetryLoop_IgnoresDone ==
    /\ ~panicked /\ pc = "loop"
    /\ pc' = "do"
    /\ UNCHANGED <<done, msgClosed, closes, group, body, closedBodies, resp,
                   deferred, wait, expBackOff, aggExpBackOff, data, attempts,
                   reads, wire, received, stopPc, seen, panicked>>
    /\ UNCHANGED hist

\* for !stopped(s.done)
RetryLoop ==
    /\ ~panicked /\ pc = "loop"
    /\ pc' = IF stopped(done) THEN "defers" ELSE "do"
    /\ UNCHANGED <<done, msgClosed, closes, group, body, closedBodies, resp,
                   deferred, wait, expBackOff, aggExpBackOff, data, attempts,
                   reads, wire, received, stopPc, seen, panicked>>
    /\ UNCHANGED hist

\* resp, err := s.client.Do(req)
ClientDo ==
    /\ ~panicked /\ pc = "do" /\ attempts < MaxAttempts
    /\ attempts' = attempts + 1
    /\ \/ /\ pc' = "sendErr"
          /\ resp' = resp
          /\ responses' = Append(responses, NoStatus)
       \/ \E st \in DoStatuses(attempts + 1) :
             /\ pc' = "store"
             /\ resp' = [status |-> st, body |-> attempts + 1]
             /\ responses' = Append(responses, st)
    /\ UNCHANGED <<done, msgClosed, closes, group, body, closedBodies,
                   deferred, wait, expBackOff, aggExpBackOff, data, reads,
                   wire, received, stopPc, seen, panicked>>
    /\ UNCHANGED <<stopAt, unblocked, ended, waits>>

\* the answers of the transport in the scenarios of a reset after a
\* successful stream: two retryable statuses of one policy, a 200, the same
\* class of status again, and a transport error that ends the run
Scripts ==
    { <<503, 503, 200, 503, NoStatus>>,
      <<420, 429, 200, 420, NoStatus>> }

\* the scripts the answers so far are the beginning of
Scripted ==
    {s \in Scripts : Len(s) > attempts /\ SubSeq(s, 1, attempts) = responses}

\* resp, err := s.client.Do(req), the transport answering by a script
ScriptedDo ==
    /\ ~panicked /\ pc = "do"
    /\ attempts' = attempts + 1
    /\ \E s \in Scripted :
          LET st == s[attempts + 1] IN
          /\ responses' = Append(responses, st)
          /\ IF st = NoStatus
             THEN pc' = "sendErr" /\ resp' = resp
             ELSE /\ pc' = "store"
                  /\ resp' = [status |-> st, body |-> attempts + 1]
    /\ UNCHANGED <<done, msgClosed, closes, group, body, closedBodies,
                   deferred, wait, expBackOff, aggExpBackOff, data, reads,
                   wire, received, stopPc, seen, panicked>>
    /\ UNCHANGED <<stopAt, unblocked, ended, waits>>

\* a bug: the loop goes on after the error is sent
SendErr_Continues ==
    /\ ~panicked /\ pc = "sendErr"
    /\ received' = Append(received, TransportError)
    /\ pc' = "loop"
    /\ UNCHANGED <<done, msgClosed, closes, group, body, closedBodies, resp,
                   deferred, wait, expBackOff, aggExpBackOff, data, attempts,
                   reads, wire, stopPc, seen, panicked>>
    /\ UNCHANGED hist

\* s.Messages <- err; return
SendErr ==
    /\ ~panicked /\ pc = "sendErr"
    /\ received' = Append(received, TransportError)
    /\ pc' = "defers"
    /\ UNCHANGED <<done, msgClosed, closes, group, body, closedBodies, resp,
                   deferred, wait, expBackOff, aggExpBackOff, data, attempts,
                   reads, wire, stopPc, seen, panicked>>
    /\ UNCHANGED hist

\* defer resp.Body.Close(); s.body = resp.Body
StoreBody ==
    /\ ~panicked /\ pc = "store"
    /\ deferred' = Append(deferred, resp.body)
    /\ body' = resp.body
    /\ pc' = "switch"
    /\ UNCHANGED <<done, msgClosed, closes, group, closedBodies, resp, wait,
                   expBackOff, aggExpBackOff, data, attempts, reads, wire,
                   received, stopPc, seen, panicked>>
    /\ UNCHANGED hist

\* a bug: every other status is retried under the normal policy
SwitchDefault_Retried ==
    /\ wait' = ExpNextBackOff(expBackOff)
    /\ expBackOff' = expBackOff + 1
    /\ pc' = "closeResp"
    /\ UNCHANGED <<aggExpBackOff, closedBodies>>

\* default: resp.Body.Close(); return
SwitchDefault ==
    /\ closedBodies' = closedBodies \cup {resp.body}
    /\ pc' = "defers"
    /\ UNCHANGED <<wait, expBackOff, aggExpBackOff>>

\* case 503: wait = expBackOff.NextBackOff()
Switch503 ==
    /\ wait' = ExpNextBackOff(expBackOff)
    /\ expBackOff' = expBackOff + 1
    /\ pc' = "closeResp"
    /\ UNCHANGED <<aggExpBackOff, closedBodies>>

\* a bug: a 420 or 429 consults the normal policy
Switch420_ConsultsNormal ==
    /\ wait' = ExpNextBackOff(expBackOff)
    /\ expBackOff' = expBackOff + 1
    /\ pc' = "closeResp"
    /\ UNCHANGED <<aggExpBackOff, closedBodies>>

\* case 420, 429: wait = aggExpBackOff.NextBackOff()
Switch420 ==
    /\ wait' = AggNextBackOff(aggExpBackOff)
    /\ aggExpBackOff' = aggExpBackOff + 1
    /\ pc' = "closeResp"
    /\ UNCHANGED <<expBackOff, closedBodies>>

\* switch resp.StatusCode
SwitchStatus ==
    /\ ~panicked /\ pc = "switch"
    /\ CASE resp.status = 200 ->
              /\ pc' = "receive"
              /\ UNCHANGED <<wait, expBackOff, aggExpBackOff, closedBodies>>
         [] resp.status = 503 -> Switch503
         [] resp.status \in {420, 429} -> Switch420
         [] OTHER -> SwitchDefault
    /\ waits' = IF resp.status \in {503, 420, 429}
                THEN Append(waits, [attempt |-> attempts, wait |-> wait'])
                ELSE waits
    /\ UNCHANGED <<done, msgClosed, closes, group, body, resp, deferred, data,
                   attempts, reads, wire, received, stopPc, seen, panicked>>
    /\ UNCHANGED <<responses, stopAt, unblocked, ended>>

\* a bug: the loop of receive does not look at done
ReceiveLoop_IgnoresDone ==
    /\ ~panicked /\ pc = "receive"
    /\ pc' = "read"
    /\ UNCHANGED <<done, msgClosed, closes, group, body, closedBodies, resp,
                   deferred, wait, expBackOff, aggExpBackOff, data, attempts,
                   reads, wire, received, stopPc, seen, panicked>>
    /\ UNCHANGED hist

\* receive: for !stopped(s.done)
ReceiveLoop ==
    /\ ~panicked /\ pc = "receive"
    /\ pc' = IF stopped(done) THEN "reset" ELSE "read"
    /\ UNCHANGED <<done, msgClosed, closes, group, body, closedBodies, resp,
                   deferred, wait, expBackOff, aggExpBackOff, data, attempts,
                   reads, wire, received, stopPc, seen, panicked>>
    /\ UNCHANGED hist

\* a bug: no token counts as empty
Len0_Never(t) == FALSE

\* len(data) == 0
Len0(t) == t.len = 0

\* reader.readNext() returns a token: an empty one is a keep-alive
ReadToken ==
    /\ ~panicked /\ pc = "read"
    /\ resp.body \notin closedBodies
    /\ reads < MaxReads
    /\ reads' = reads + 1
    /\ \E t \in WireTokens :
          /\ data' = t
          /\ IF Len0(t)
             THEN pc' = "receive" /\ UNCHANGED wire
             ELSE /\ pc' = "send"
                  /\ wire' = Append(wire, [token |-> t, body |-> resp.body])
    /\ UNCHANGED <<done, msgClosed, closes, group, body, closedBodies, resp,
                   deferred, wait, expBackOff, aggExpBackOff, attempts,
                   received, stopPc, seen, panicked>>
    /\ UNCHANGED <<responses, stopAt, unblocked, ended, waits>>

\* reader.readNext() returns an error: the server ended the stream, or the
\* connection broke
ReadEnd ==
    /\ ~panicked /\ pc = "read"
    /\ resp.body \notin closedBodies
    /\ pc' = "reset"
    /\ UNCHANGED <<done, msgClosed, closes, group, body, closedBodies, resp,
                   deferred, wait, expBackOff, aggExpBackOff, data, attempts,
                   reads, wire, received, stopPc, seen, panicked>>
    /\ ended' = TRUE
    /\ UNCHANGED <<responses, stopAt, unblocked, waits>>

\* reader.readNext() returns an error: the body was closed under the read
ReadClosed ==
    /\ ~panicked /\ pc = "read"
    /\ resp.body \in closedBodies
    /\ pc' = "reset"
    /\ UNCHANGED <<done, msgClosed, closes, group, body, closedBodies, resp,
                   deferred, wait, expBackOff, aggExpBackOff, data, attempts,
                   reads, wire, received, stopPc, seen, panicked>>
    /\ unblocked' = TRUE
    /\ UNCHANGED <<responses, stopAt, ended, waits>>

\* a bug: the newest message overtakes the ones sent before it
ReceiveSend_Reordered ==
    /\ ~panicked /\ pc = "send"
    /\ received' = <<getMessage(data)>> \o received
    /\ data' = NoData
    /\ pc' = "receive"
    /\ UNCHANGED <<done, msgClosed, closes, group, body, closedBodies, resp,
                   deferred, wait, expBackOff, aggExpBackOff, attempts, reads,
                   wire, stopPc, seen, panicked>>
    /\ UNCHANGED hist

\* a bug: receive returns after it delivered a decode error
ReceiveSend_ErrorEnds ==
    /\ ~panicked /\ pc = "send"
    /\ received' = Append(received, getMessage(data))
    /\ data' = NoData
    /\ pc' = IF UnmarshalMapFails(data) THEN "reset" ELSE "receive"
    /\ UNCHANGED <<done, msgClosed, closes, group, body, closedBodies, resp,
                   deferred, wait, expBackOff, aggExpBackOff, attempts, reads,
                   wire, stopPc, seen, panicked>>
    /\ UNCHANGED hist

\* case s.Messages <- getMessage(data): the consumer receives the message
ReceiveSend ==
    /\ ~panicked /\ pc = "send"
    /\ received' = Append(received, getMessage(data))
    /\ data' = NoData
    /\ pc' = "receive"
    /\ UNCHANGED <<done, msgClosed, closes, group, body, closedBodies, resp,
                   deferred, wait, expBackOff, aggExpBackOff, attempts, reads,
                   wire, stopPc, seen, panicked>>
    /\ UNCHANGED hist

\* case <-s.done: return
ReceiveDone ==
    /\ ~panicked /\ pc = "send"
    /\ done
    /\ data' = NoData
    /\ pc' = "reset"
    /\ UNCHANGED <<done, msgClosed, closes, group, body, closedBodies, resp,
                   deferred, wait, expBackOff, aggExpBackOff, attempts, reads,
                   wire, received, stopPc, seen, panicked>>
    /\ UNCHANGED hist

\* a bug: only the aggressive policy is reset
ResetBackOffs_KeepsNormal ==
    /\ ~panicked /\ pc = "reset"
    /\ expBackOff' = expBackOff
    /\ aggExpBackOff' = ResetState
    /\ pc' = "closeResp"
    /\ UNCHANGED <<done, msgClosed, closes, group, body, closedBodies, resp,
                   deferred, wait, data, attempts, reads, wire, received,
                   stopPc, seen, panicked>>
    /\ UNCHANGED hist

\* expBackOff.Reset(); aggExpBackOff.Reset()
ResetBackOffs ==
    /\ ~panicked /\ pc = "reset"
    /\ expBackOff' = ResetState
    /\ aggExpBackOff' = ResetState
    /\ pc' = "closeResp"
    /\ UNCHANGED <<done, msgClosed, closes, group, body, closedBodies, resp,
                   deferred, wait, data, attempts, reads, wire, received,
                   stopPc, seen, panicked>>
    /\ UNCHANGED hist

\* a bug: the exhaustion of the policy is reported on Messages
CloseResp_ReportsExhaustion ==
    /\ ~panicked /\ pc = "closeResp"
    /\ closedBodies' = closedBodies \cup {resp.body}
    /\ pc' = IF wait = Stop THEN "defers" ELSE "sleep"
    /\ received' = IF wait = Stop
                   THEN Append(received, [variant |-> "BackOffError"])
                   ELSE received
    /\ UNCHANGED <<done, msgClosed, closes, group, body, resp, deferred, wait,
                   expBackOff, aggExpBackOff, data, attempts, reads, wire,
                   stopPc, seen, panicked>>
    /\ UNCHANGED hist

\* a bug: an exhausted policy does not end retry
CloseResp_IgnoresExhaustion ==
    /\ ~panicked /\ pc = "closeResp"
    /\ closedBodies' = closedBodies \cup {resp.body}
    /\ pc' = "sleep"
    /\ UNCHANGED <<done, msgClosed, closes, group, body, resp, deferred, wait,
                   expBackOff, aggExpBackOff, data, attempts, reads, wire,
                   received, stopPc, seen, panicked>>
    /\ UNCHANGED hist

\* a bug: the body is left to the deferred close
CloseResp_LeavesBody ==
    /\ ~panicked /\ pc = "closeResp"
    /\ pc' = IF wait = Stop THEN "defers" ELSE "sleep"
    /\ UNCHANGED <<done, msgClosed, closes, group, body, closedBodies, resp,
                   deferred, wait, expBackOff, aggExpBackOff, data, attempts,
                   reads, wire, received, stopPc, seen, panicked>>
    /\ UNCHANGED hist

\* resp.Body.Close(); if wait == backoff.Stop { return }
CloseResp ==
    /\ ~panicked /\ pc = "closeResp"
    /\ closedBodies' = closedBodies \cup {resp.body}
    /\ pc' = IF wait = Stop THEN "defers" ELSE "sleep"
    /\ UNCHANGED <<done, msgClosed, closes, group, body, resp, deferred, wait,
                   expBackOff, aggExpBackOff, data, attempts, reads, wire,
                   received, stopPc, seen, panicked>>
    /\ UNCHANGED hist

\* sleepOrDone(wait, s.done): the timer fires
SleepTimer ==
    /\ ~panicked /\ pc = "sleep"
    /\ pc' = "loop"
    /\ UNCHANGED <<done, msgClosed, closes, group, body, closedBodies, resp,
                   deferred, wait, expBackOff, aggExpBackOff, data, attempts,
                   reads, wire, received, stopPc, seen, panicked>>
    /\ UNCHANGED hist

\* sleepOrDone(wait, s.done): the done channel is closed
SleepDone ==
    /\ ~panicked /\ pc = "sleep"
    /\ done
    /\ pc' = "loop"
    /\ UNCHANGED <<done, msgClosed, closes, group, body, closedBodies, resp,
                   deferred, wait, expBackOff, aggExpBackOff, data, attempts,
                   reads, wire, received, stopPc, seen, panicked>>
    /\ UNCHANGED hist

\* return: the deferred resp.Body.Close() calls run first, last first
DeferredBodyClose ==
    /\ ~panicked /\ pc = "defers"
    /\ closedBodies' = closedBodies \cup Range(deferred)
    /\ deferred' = <<>>
    /\ pc' = "groupDone"
    /\ UNCHANGED <<done, msgClosed, closes, group, body, resp, wait,
                   expBackOff, aggExpBackOff, data, attempts, reads, wire,
                   received, stopPc, seen, panicked>>
    /\ UNCHANGED hist

\* a bug: retry returns without s.group.Done()
GroupDone_Forgotten ==
    /\ ~panicked /\ pc = "groupDone"
    /\ pc' = "closeMessages"
    /\ UNCHANGED <<done, msgClosed, closes, group, body, closedBodies, resp,
                   deferred, wait, expBackOff, aggExpBackOff, data, attempts,
                   reads, wire, received, stopPc, seen, panicked>>
    /\ UNCHANGED hist

\* defer s.group.Done(): registered second, so run before close(s.Messages)
GroupDone ==
    /\ ~panicked /\ pc = "groupDone"
    /\ group' = group - 1
    /\ pc' = "closeMessages"
    /\ UNCHANGED <<done, msgClosed, closes, body, closedBodies, resp,
                   deferred, wait, expBackOff, aggExpBackOff, data, attempts,
                   reads, wire, received, stopPc, seen, panicked>>
    /\ UNCHANGED hist

\* defer close(s.Messages): registered first, so run last
CloseMessages ==
    /\ ~panicked /\ pc = "closeMessages"
    /\ IF msgClosed
       THEN panicked' = TRUE /\ UNCHANGED <<msgClosed, closes, pc>>
       ELSE /\ msgClosed' = TRUE
            /\ closes' = closes + 1
            /\ pc' = "exited"
            /\ UNCHANGED panicked
    /\ UNCHANGED <<done, group, body, closedBodies, resp, deferred, wait,
                   expBackOff, aggExpBackOff, data, attempts, reads, wire,
                   received, stopPc, seen>>
    /\ UNCHANGED hist

(***************************************************************************)
(* Stop, called by caller c.                                               *)
(***************************************************************************)
\* what retry is doing when s.done is closed, for the history
StopPoint ==
    IF pc \in {"read", "send", "sendErr", "sleep", "exited"} THEN pc ELSE "busy"

\* the callers are alike: c2 names the one whose close(s.done) comes second
MayCall(c) == c = "c2" => stopPc["c1"] # "idle"

\* a bug: Stop closes Messages itself, as its comment says
StopCloseDone_ClosesMessages(c) ==
    /\ ~panicked /\ stopPc[c] = "idle" /\ MayCall(c)
    /\ IF done
       THEN /\ panicked' = TRUE
            /\ stopPc' = [stopPc EXCEPT ![c] = "panic"]
            /\ UNCHANGED <<done, msgClosed, closes>>
       ELSE /\ done' = TRUE
            /\ msgClosed' = TRUE
            /\ closes' = closes + 1
            /\ stopPc' = [stopPc EXCEPT ![c] = "check"]
            /\ UNCHANGED panicked
    /\ UNCHANGED <<pc, group, body, closedBodies, resp, deferred, wait,
                   expBackOff, aggExpBackOff, data, attempts, reads, wire,
                   received, seen>>
    /\ stopAt' = IF done THEN stopAt ELSE StopPoint
    /\ UNCHANGED <<responses, unblocked, ended, waits>>

\* close(s.done): closing a closed channel panics
StopCloseDone(c) ==
    /\ ~panicked /\ stopPc[c] = "idle" /\ MayCall(c)
    /\ IF done
       THEN /\ panicked' = TRUE
            /\ stopPc' = [stopPc EXCEPT ![c] = "panic"]
            /\ UNCHANGED done
       ELSE /\ done' = TRUE
            /\ stopPc' = [stopPc EXCEPT ![c] = "check"]
            /\ UNCHANGED panicked
    /\ UNCHANGED <<taskVars, seen>>
    /\ stopAt' = IF done THEN stopAt ELSE StopPoint
    /\ UNCHANGED <<responses, unblocked, ended, waits>>

\* a bug: Stop does not close the body
StopCheckBody_NoClose(c) ==
    /\ ~panicked /\ stopPc[c] = "check"
    /\ seen' = [seen EXCEPT ![c] = body]
    /\ stopPc' = [stopPc EXCEPT ![c] = "wait"]
    /\ UNCHANGED <<taskVars, done, panicked>>
    /\ UNCHANGED hist

\* the values a load of s.body by Stop can return.  Nothing orders the load
\* after retry's store (no lock, no channel operation between them), so
\* while retry runs on from the store to its first blocking call the load
\* returns the value stored or the one s.body held before.
BodyLoads ==
    {body} \cup (IF pc \in {"switch", "receive", "read"} /\ body = resp.body
                 THEN {body - 1}
                 ELSE {})

\* if s.body != nil
StopCheckBody(c) ==
    /\ ~panicked /\ stopPc[c] = "check"
    /\ \E b \in BodyLoads :
          /\ seen' = [seen EXCEPT ![c] = b]
          /\ stopPc' = [stopPc EXCEPT ![c] = IF b # 0 THEN "close" ELSE "wait"]
    /\ UNCHANGED <<taskVars, done, panicked>>
    /\ UNCHANGED hist

\* s.body.Close(): s.body is loaded without synchronisation, so the body
\* closed is the one the check loaded or the one stored since; the value
\* loaded is used no more
StopCloseBody(c) ==
    /\ ~panicked /\ stopPc[c] = "close"
    /\ \E b \in {seen[c], body} : closedBodies' = closedBodies \cup {b}
    /\ seen' = [seen EXCEPT ![c] = 0]
    /\ stopPc' = [stopPc EXCEPT ![c] = "wait"]
    /\ UNCHANGED <<pc, msgClosed, closes, group, body, resp, deferred, wait,
                   expBackOff, aggExpBackOff, data, attempts, reads, wire,
                   received, done, panicked>>
    /\ UNCHANGED hist

\* s.group.Wait()
StopWait(c) ==
    /\ ~panicked /\ stopPc[c] = "wait"
    /\ group = 0
    /\ stopPc' = [stopPc EXCEPT ![c] = "returned"]
    /\ UNCHANGED <<taskVars, done, seen, panicked>>
    /\ UNCHANGED hist

(***************************************************************************)
(* Specifications.                                                         *)
(***************************************************************************)
RetryStep ==
    \/ RetryLoop \/ ClientDo \/ StoreBody \/ SwitchStatus \/ ReceiveLoop
    \/ ReadClosed \/ ReceiveDone \/ ResetBackOffs \/ CloseResp
    \/ SleepTimer \/ SleepDone \/ DeferredBodyClose \/ GroupDone
    \/ CloseMessages

StopStep(c) == StopCheckBody(c) \/ StopCloseBody(c) \/ StopWait(c)

Next ==
    \/ RetryLoop \/ ClientDo \/ SendErr \/ StoreBody \/ SwitchStatus
    \/ ReceiveLoop \/ ReadToken \/ ReadEnd \/ ReadClosed
    \/ ReceiveSend \/ ReceiveDone \/ ResetBackOffs \/ CloseResp
    \/ SleepTimer \/ SleepDone \/ DeferredBodyClose \/ GroupDone
    \/ CloseMessages
    \/ \E c \in Callers :
          \/ StopCloseDone(c) \/ StopCheckBody(c)
          \/ StopCloseBody(c) \/ StopWait(c)

Spec == Init /\ [][Next]_vars

\* receive holds a token of the first connection, whatever the token
GetMessageInit ==
    \E t \in Tokens :
        /\ pc = "send"
        /\ data = t
        /\ wire = <<[token |-> t, body |-> 1]>>
        /\ reads = 1
        /\ attempts = 1
        /\ responses = <<200>>
        /\ resp = [status |-> 200, body |-> 1]
        /\ body = 1
        /\ deferred = <<1>>
        /\ closedBodies = {}
        /\ received = <<>>
        /\ done = FALSE /\ msgClosed = FALSE /\ closes = 0 /\ group = 1
        /\ wait = 0
        /\ expBackOff = ResetState /\ aggExpBackOff = ResetState
        /\ stopPc = [c \in Callers |-> "idle"]
        /\ seen = [c \in Callers |-> 0]
        /\ panicked = FALSE
        /\ stopAt = "never" /\ unblocked = FALSE /\ ended = FALSE
        /\ waits = <<>>

\* getMessage(data): the value it returns is appended to received
GetMessage ==
    /\ pc = "send" /\ Len(received) < MaxCalls
    /\ received' = Append(received, getMessage(data))
    /\ UNCHANGED <<pc, done, msgClosed, closes, group, body, closedBodies,
                   resp, deferred, wait, expBackOff, aggExpBackOff, data,
                   attempts, reads, wire, stopPc, seen, panicked>>
    /\ UNCHANGED hist

\* the classifier alone, applied to every token
GetMessageSpec == GetMessageInit /\ [][GetMessage]_vars

\* the same program with the transport answering by a script
ScriptedNext ==
    \/ RetryLoop \/ ScriptedDo \/ SendErr \/ StoreBody \/ SwitchStatus
    \/ ReceiveLoop \/ ReadToken \/ ReadEnd \/ ReadClosed
    \/ ReceiveSend \/ ReceiveDone \/ ResetBackOffs \/ CloseResp
    \/ SleepTimer \/ SleepDone \/ DeferredBodyClose \/ GroupDone
    \/ CloseMessages
    \/ \E c \in Callers :
          \/ StopCloseDone(c) \/ StopCheckBody(c)
          \/ StopCloseBody(c) \/ StopWait(c)

ScriptedSpec == Init /\ [][ScriptedNext]_vars

\* The Go scheduler runs every runnable goroutine, the transport answers
\* every request and timers fire.  Nothing makes the server send a token or
\* end the stream, the consumer receive, or a caller call Stop.
FairSpec ==
    /\ Spec
    /\ WF_vars(RetryStep)
    /\ \A c \in Callers : WF_vars(StopStep(c))

(***************************************************************************)
(* Properties.                                                             *)
(***************************************************************************)
\* the positions of retry from its return on
Returning == {"defers", "groupDone", "closeMessages", "exited"}

\* caller c is inside Stop
InStop(c) == stopPc[c] \in {"check", "close", "wait"}

\* caller c has called Stop and did not panic in it
Called(c) == InStop(c) \/ stopPc[c] = "returned"

\* the values the consumer received, the transport error left out
Messages == SelectSeq(received, LAMBDA m : m # TransportError)

\* the positions at which the transport error stands in received
ErrorsAt == {i \in 1..Len(received) : received[i] = TransportError}

\* the bodies client.Do has handed to retry
Obtained == {b \in 1..Len(responses) : responses[b] # NoStatus}

\* C1: at the moment a call of Stop returns, Messages is already closed.
C1_StopReturnsAfterClose ==
    \A c \in Callers : stopPc[c] = "returned" => msgClosed

\* C2: whenever retry is blocked sending on Messages (a message of receive
\* or the transport error) and a caller is in Stop, that call returns and
\* Messages is closed, whether or not the consumer ever receives again.
C2_StopNeverDeadlocksOnSend ==
    \A c \in Callers :
        (pc \in {"send", "sendErr"} /\ InStop(c))
            ~> ((stopPc[c] = "returned" /\ msgClosed) \/ panicked)

\* C3: no call of Stop panics, also when Stop is called twice.
C3_StopTwiceNoPanic ==
    \A c \in Callers : stopPc[c] # "panic"

\* C4: a call of Stop made while retry holds a 200 response (storing its
\* body, checking done or reading it) returns, with Messages closed, in
\* every interleaving; and once done is closed retry starts no connection
\* attempt it had not already started.
C4_StopUnblocksRead ==
    /\ \A c \in Callers :
          (InStop(c) /\ resp.status = 200
                 /\ pc \in {"store", "switch", "receive", "read"})
              ~> ((stopPc[c] = "returned" /\ msgClosed) \/ panicked)
    /\ [][(done /\ pc # "do") => pc' # "do"]_vars

\* C4 witness: Stop was called during a read on which no token ever came,
\* the close of the body ended the read, Messages is closed, Stop returned.
C4_Witness ==
    /\ stopAt = "read" /\ unblocked /\ reads = 0
    /\ msgClosed
    /\ \E c \in Callers : stopPc[c] = "returned"

\* C5: the first call of Stop, made when retry has exited or is sleeping in
\* a backoff, does not panic, and returns.
C5_StopAfterExitOrInBackoff ==
    /\ \A c \in Callers :
          (InStop(c) /\ stopAt \in {"sleep", "exited"})
              ~> (stopPc[c] = "returned" \/ panicked)
    /\ [](\A c \in Callers :
             stopPc[c] = "panic" => \E d \in Callers \ {c} : Called(d))

\* C5 witness: Stop was called after retry had exited by itself, and
\* returned.
C5_Witness ==
    /\ stopAt = "exited"
    /\ Len(responses) > 0
    /\ \E c \in Callers : stopPc[c] = "returned"

\* C6: Messages is closed at most once, and exactly once when retry has
\* exited; when it is closed retry is past every send and every body it
\* obtained has been closed.
C6_ClosedOnceAfterSendsAndBodies ==
    /\ closes <= 1
    /\ msgClosed <=> closes = 1
    /\ pc = "exited" <=> msgClosed
    /\ msgClosed => Obtained \subseteq closedBodies

\* C6 witness: Messages is closed after two responses and a delivery.
C6_Witness ==
    /\ msgClosed
    /\ Cardinality(Obtained) >= 2
    /\ Len(received) >= 1

\* C7: as long as Stop is not called, the messages received are the
\* classifications of the non-empty tokens read, in the order read, the one
\* retry is still sending left out.
C7_DeliveredInWireOrder ==
    LET sent == IF pc = "send" THEN SubSeq(wire, 1, Len(wire) - 1) ELSE wire
    IN  ~done =>
           Messages = [i \in 1..Len(sent) |-> getMessage(sent[i].token)]

\* C7 witness: two different messages, read from two connections, received.
C7_Witness ==
    /\ ~done
    /\ Len(wire) = 2 /\ Len(Messages) = 2
    /\ wire[1].body # wire[2].body
    /\ Messages[1] # Messages[2]

\* C8: once client.Do has failed, retry neither connects nor sleeps again;
\* the error is delivered at most once and nothing after it; once it is
\* delivered, retry closes Messages.
C8_TransportFailureIsTerminal ==
    /\ [](NoStatus \in Range(responses) =>
             /\ pc \in {"sendErr"} \cup Returning
             /\ Cardinality(ErrorsAt) = (IF pc = "sendErr" THEN 0 ELSE 1)
             /\ ErrorsAt \subseteq {Len(received)}
             /\ attempts = Len(responses)
             /\ responses[attempts] = NoStatus)
    /\ (ErrorsAt # {}) ~> (msgClosed \/ panicked)

\* C8 witness: the error was delivered after a message, Messages is closed.
C8_Witness ==
    /\ msgClosed
    /\ Len(received) = 2
    /\ received[2] = TransportError

\* C9: a response with another status than 200, 503, 420, 429 consults no
\* policy and changes no wait; after it the body is closed, retry neither
\* connects nor sleeps again, and closes Messages.
C9_OtherStatusIsTerminal ==
    /\ [](resp.status = 404 /\ pc # "store" /\ pc # "switch" =>
             /\ pc \in Returning
             /\ resp.body \in closedBodies
             /\ attempts = resp.body)
    /\ [][(pc = "switch" /\ resp.status = 404) =>
             UNCHANGED <<expBackOff, aggExpBackOff, wait>>]_vars
    /\ (resp.status = 404) ~> (msgClosed \/ panicked)

\* C9 witness: the first response was a 404 and Messages is closed.
C9_Witness ==
    /\ responses = <<404>>
    /\ msgClosed
    /\ received = <<>>

\* C10: every value received is the transport error, at most once and only
\* if client.Do failed, or the classification of a non-empty token read
\* from a 200 response; nothing else is ever received.
C10_OnlyTokensAndTransportError ==
    /\ Cardinality(ErrorsAt) <= 1
    /\ ErrorsAt # {} => NoStatus \in Range(responses)
    /\ Len(received) <= Len(wire) + Cardinality(ErrorsAt)
    /\ \A i \in 1..Len(received) \ ErrorsAt :
          \E j \in 1..Len(wire) :
             /\ wire[j].token.len > 0
             /\ responses[wire[j].body] = 200
             /\ received[i] = getMessage(wire[j].token)

\* C10 witness: after a 503, a decode error and then the transport error
\* were received, and nothing else.
C10_Witness ==
    /\ 503 \in Range(responses)
    /\ Len(received) = 2
    /\ received[1].variant = "UnmarshalError"
    /\ received[2] = TransportError

\* the attempt whose response the current wait was computed for
WaitFor == IF waits = <<>> THEN 0 ELSE waits[Len(waits)].attempt

\* the statuses retry backs off for
Retryable == {503, 420, 429}

\* C11: when the body of a 200 connection reaches EOF (the server closes the
\* stream), the stream goroutine stops itself and closes Messages: after a
\* read ended that way, no connection attempt is made any more.
C11_EOFStopsTheStream == [][ended => attempts' = attempts]_vars

\* C12: once Stop has signalled cancellation, the task puts no further
\* message on Messages, except a message whose send was already pending at
\* the moment of signalling: no token read after the signal and no transport
\* failure returned after the signal is delivered.
C12_NoMessageAfterSignal ==
    [][received' # received => (~done \/ stopAt \in {"send", "sendErr"})]_vars

\* C13: every backoff sleep uses a duration obtained from a policy for the
\* response just received; after a 200 session the task goes straight back
\* to connecting, never waiting a duration computed for an earlier 503, 420
\* or 429.  (A sleep that starts after cancellation returns at once and is
\* left out.)
C13_SleepUsesFreshWait ==
    pc = "sleep" /\ ~done /\ wait # 0 => WaitFor = attempts

\* C14: a 503 consults the normal policy exactly once and leaves the
\* aggressive policy's state unchanged; a 420 or 429 consults the aggressive
\* policy exactly once and leaves the normal policy's state unchanged; a 200
\* or any other status consults neither.  If the consulted policy returns a
\* duration, the task waits it and then makes a new connection attempt
\* (unless Stop is called meanwhile).
C14_PolicySelection ==
    /\ [][pc = "switch" /\ pc' # "switch" =>
            CASE resp.status = 503 ->
                   /\ wait' = ExpNextBackOff(expBackOff)
                   /\ expBackOff' = expBackOff + 1
                   /\ aggExpBackOff' = aggExpBackOff
                   /\ Len(waits') = Len(waits) + 1
              [] resp.status \in {420, 429} ->
                   /\ wait' = AggNextBackOff(aggExpBackOff)
                   /\ aggExpBackOff' = aggExpBackOff + 1
                   /\ expBackOff' = expBackOff
                   /\ Len(waits') = Len(waits) + 1
              [] OTHER ->
                   UNCHANGED <<wait, expBackOff, aggExpBackOff, waits>>]_vars
    /\ [][pc' = pc \/ pc \notin {"switch", "reset"} =>
            UNCHANGED <<wait, expBackOff, aggExpBackOff, waits>>]_vars
    /\ [](pc = "sleep" /\ resp.status \in Retryable =>
            /\ wait # Stop
            /\ WaitFor = attempts
            /\ wait = waits[Len(waits)].wait)
    /\ (pc = "closeResp" /\ resp.status \in Retryable /\ wait # Stop)
          ~> (pc = "do" \/ done \/ panicked)

\* a 420 and a 503 each consulted their own policy once, the waits are over
\* and the third attempt is about to be made
C14_Witness ==
    /\ responses = <<420, 503>>
    /\ pc = "do" /\ ~done
    /\ expBackOff = 1 /\ aggExpBackOff = 1
    /\ waits = <<[attempt |-> 1, wait |-> AggInterval(0)],
                 [attempt |-> 2, wait |-> ExpInterval(0)]>>

\* C15: when the policy consulted for a 503, 420 or 429 signals Stop, the
\* task closes the body and stops, closing Messages, with no sleep and no
\* further connection attempt.
C15_ExhaustionIsTerminal ==
    /\ [](wait = Stop => pc \in {"closeResp"} \cup Returning)
    /\ [](wait = Stop /\ pc \in Returning => resp.body \in closedBodies)
    /\ [][wait = Stop => attempts' = attempts]_vars
    /\ (wait = Stop) ~> (msgClosed \/ panicked)

\* the normal policy gave out at the third 503 in a row and retry has
\* stopped on its own, Stop never called
C15_Witness ==
    /\ responses = <<503, 503, 503>>
    /\ wait = Stop /\ ~done
    /\ msgClosed /\ pc = "exited"
    /\ closedBodies = {1, 2, 3}

\* the wait a fresh policy returns at its n-th consultation for status st
FreshWait(st, n) ==
    IF st = 503 THEN ExpNextBackOff(n - 1) ELSE AggNextBackOff(n - 1)

\* C16: for the responses [503, 503, 200 with one message then body close,
\* 503] the task makes exactly two retries using the normal policy's first
\* and second wait, then streams, then resets; the policy's wait for the 503
\* that follows the 200 equals its wait for the first 503 of the run.  The
\* same holds for the aggressive policy with 420/429.
C16_ResetAfterStream ==
    /\ Len(waits) >= 1 =>
          /\ waits[1] = [attempt |-> 1, wait |-> FreshWait(responses[1], 1)]
          /\ waits[1].wait # Stop
    /\ Len(waits) >= 2 =>
          /\ waits[2] = [attempt |-> 2, wait |-> FreshWait(responses[2], 2)]
          /\ waits[2].wait \notin {Stop, waits[1].wait}
    /\ Len(waits) >= 3 =>
          /\ waits[3].attempt = 4
          /\ waits[3].wait = waits[1].wait
    /\ Len(waits) <= 3
    /\ pc = "sleep" /\ attempts \in {1, 2} => wait = waits[attempts].wait
    /\ attempts >= 3 => Len(waits) >= 2
    /\ attempts >= 4 /\ wire # <<>> => wire[1].body = 3
    /\ pc = "closeResp" /\ attempts = 4 =>
          expBackOff + aggExpBackOff = ResetState + 1

\* the scenario of the claim, run to the 503 that follows the 200: one
\* message was delivered from the 200 body before the server closed it, and
\* nobody called Stop
C16_Witness ==
    /\ responses = <<503, 503, 200, 503>>
    /\ Len(received) = 1 /\ Len(wire) = 1 /\ wire[1].body = 3
    /\ ended /\ ~done
    /\ pc = "closeResp"
    /\ waits = <<[attempt |-> 1, wait |-> ExpInterval(0)],
                 [attempt |-> 2, wait |-> ExpInterval(1)],
                 [attempt |-> 4, wait |-> ExpInterval(0)]>>

\* readNext returned no token from body b, not even a keep-alive: every read
\* of the run returned a token that went to the send, none of them from b
NoTokenFrom(b) ==
    /\ reads = Len(wire)
    /\ \A j \in 1..Len(wire) : wire[j].body # b

\* C17: the policies are reset only after an actual successful read: a 200
\* response whose body yields no token before it ends or errors does not
\* reset either policy.  (The return of receive upon cancellation is left
\* out.)
C17_ResetOnlyAfterRead ==
    [][pc = "reset" /\ pc' = "closeResp" /\ ~done
         /\ NoTokenFrom(resp.body) =>
         UNCHANGED <<expBackOff, aggExpBackOff>>]_vars

\* C18: if cancellation is signalled while the task is waiting a backoff
\* duration, the wait ends without running to its full duration (the closed
\* done channel wakes it, whatever the timer does), no new connection
\* attempt is made afterwards, and the task stops and closes Messages.
C18_StopInterruptsSleep ==
    /\ [](pc = "sleep" /\ done /\ ~panicked => ENABLED SleepDone)
    /\ [][stopAt = "sleep" => attempts' = attempts]_vars
    /\ [](stopAt = "sleep" => pc \in {"sleep", "loop"} \cup Returning)
    /\ (stopAt = "sleep") ~> (msgClosed \/ panicked)

\* Stop was called during the sleep after a 503; retry made no second
\* attempt and has closed Messages
C18_Witness ==
    /\ stopAt = "sleep"
    /\ responses = <<503>> /\ wait = ExpInterval(0)
    /\ msgClosed /\ pc = "exited"

\* C19: a zero-length token (keep-alive line) is never delivered on Messages
\* and never ends the streaming: after reading it, receive continues with
\* the next token of the same connection.
C19_KeepAliveSkipped ==
    /\ [](pc = "send" => data.len # 0)
    /\ [](\A j \in 1..Len(wire) : wire[j].token.len # 0)
    /\ [][pc = "read" /\ reads' # reads /\ data'.len = 0 =>
            /\ pc' = "receive"
            /\ UNCHANGED <<received, wire, resp, body, closedBodies, attempts,
                           msgClosed>>]_vars
    /\ [][pc = "receive" /\ data = KeepAlive /\ ~done /\ pc' # pc =>
            pc' = "read" /\ resp' = resp]_vars

\* the first read of the connection was a keep-alive; receive went on and
\* read a tweet from the same body, which it is about to deliver
C19_Witness ==
    /\ attempts = 1 /\ reads = 2
    /\ wire = <<[token |-> TweetTok, body |-> 1]>>
    /\ pc = "send" /\ data = TweetTok
    /\ received = <<>> /\ ~done

\* C20: a token that is not parseable JSON is delivered as one decode-error
\* message on Messages, and receive then goes on reading and delivering the
\* following tokens of the same connection; the task does not stop,
\* reconnect or close the body because of it.
C20_DecodeFailureNotFatal ==
    /\ [][pc = "send" /\ received' # received /\ UnmarshalMapFails(data) =>
            /\ received' = Append(received, [variant |-> "UnmarshalError"])
            /\ pc' = "receive"
            /\ UNCHANGED <<resp, body, closedBodies, attempts, msgClosed,
                           wait, expBackOff, aggExpBackOff>>]_vars
    /\ [](\A j \in 1..Len(Messages) :
            (j <= Len(wire) /\ UnmarshalMapFails(wire[j].token)) =>
                Messages[j] = [variant |-> "UnmarshalError"])
    /\ [][pc = "receive" /\ ~done /\ pc' # pc =>
            pc' = "read" /\ UNCHANGED <<resp, received, closedBodies>>]_vars

\* a malformed token and then a tweet were read from the same body and both
\* delivered, the first as a decode error; the connection is still up
C20_Witness ==
    /\ attempts = 1 /\ ~done
    /\ wire = <<[token |-> MalformedTok, body |-> 1],
                [token |-> TweetTok, body |-> 1]>>
    /\ received = <<[variant |-> "UnmarshalError"], getMessage(TweetTok)>>
    /\ pc = "receive" /\ closedBodies = {}

\* the order in which the claim lists the keys, and the variant of each
Priority ==
    <<"retweet_count", "direct_message", "delete", "scrub_geo", "limit",
      "status_withheld", "user_withheld", "disconnect", "warning", "friends",
      "event", "matching_rules">>
VariantOf ==
    <<"Tweet", "DirectMessage", "StatusDeletion", "LocationDeletion",
      "StreamLimit", "StatusWithheld", "UserWithheld", "StreamDisconnect",
      "StallWarning", "FriendsList", "Event", "StreamData">>

\* the place in Priority of the first key the object has, 0 if it has none
FirstKey(keys) ==
    IF \E i \in 1..Len(Priority) : Priority[i] \in keys
    THEN CHOOSE i \in 1..Len(Priority) :
             /\ Priority[i] \in keys
             /\ \A j \in 1..(i - 1) : Priority[j] \notin keys
    ELSE 0

\* C21: for every parsed object, the variant returned is the one of the
\* first key present in the order retweet_count, direct_message, delete,
\* scrub_geo, limit, status_withheld, user_withheld, disconnect, warning,
\* friends, event, matching_rules, whatever other keys are also present.
C21_FirstMatchWins ==
    \A i \in 1..Len(received) :
        data.kind = "object" /\ FirstKey(data.keys) # 0 =>
            received[i].variant = VariantOf[FirstKey(data.keys)]

\* an object with both delete and limit was classified as a status deletion
C21_Witness ==
    /\ data = DeleteLimitTok
    /\ received # <<>>
    /\ received[1] = [variant |-> "StatusDeletion", complete |-> TRUE]

\* the variants getMessage can return
Variants ==
    {VariantOf[i] : i \in 1..Len(VariantOf)} \cup {"Map", "UnmarshalError"}

\* C22: for every token getMessage returns exactly one variant; a token
\* that does not parse as a JSON object yields the decode error, an object
\* with none of the known keys yields the untyped record holding the parsed
\* mapping unchanged, and classifying the same token twice yields the same
\* variant.
C22_TotalAndDeterministic ==
    \A i \in 1..Len(received) :
        /\ received[i].variant \in Variants
        /\ data.kind # "object" =>
              received[i] = [variant |-> "UnmarshalError"]
        /\ data.kind = "object" /\ FirstKey(data.keys) = 0 =>
              received[i] = [variant |-> "Map", data |-> data.keys]
        /\ received[i] = received[1]

\* C22, amended: as above, except that the JSON null, which is no object,
\* yields no decode error but the untyped record with no key.
C22_TotalNullIsRecord ==
    \A i \in 1..Len(received) :
        /\ received[i].variant \in Variants
        /\ data.kind \notin {"object", "null"} =>
              received[i] = [variant |-> "UnmarshalError"]
        /\ data.kind = "null" =>
              received[i] = [variant |-> "Map", data |-> {}]
        /\ data.kind = "object" /\ FirstKey(data.keys) = 0 =>
              received[i] = [variant |-> "Map", data |-> data.keys]
        /\ received[i] = received[1]

\* the token null was classified twice, each time as the record with no key
C22_Witness ==
    /\ data = NullTok
    /\ received = <<[variant |-> "Map", data |-> {}],
                    [variant |-> "Map", data |-> {}]>>

\* C23: when a key selects a shape but the structured decode of the token
\* into that shape fails, the classifier returns a decode error and never a
\* partially populated variant of the selected shape.
C23_FailedDecodeIsError ==
    \A i \in 1..Len(received) :
        data.kind = "object" /\ FirstKey(data.keys) # 0 /\ ~data.fits =>
            received[i] = [variant |-> "UnmarshalError"]

\* C24: shutdown is race-free on the shared body reference: in no
\* interleaving is Stop about to load s.body while retry is about to store
\* it with nothing ordering the two accesses.
C24_NoRaceOnBody ==
    \A c \in Callers : stopPc[c] \in {"check", "close"} => pc # "store"

\* C25: the response of each connection attempt is closed before the next
\* attempt starts: retry holds at most one body that has not been closed,
\* and none while it sleeps, tests the loop condition or connects, on the
\* 200, 503, 420 and 429 paths, the backoff wait cut short or not.
C25_OneOpenBody ==
    /\ Cardinality(Obtained \ closedBodies) <= 1
    /\ Obtained \ closedBodies \subseteq {resp.body}
    /\ pc \in {"sleep", "loop", "do", "sendErr"} => Obtained \subseteq closedBodies

\* a 200 connection ended, the 503 that followed was closed before the
\* backoff, and Stop cut the backoff short: both bodies are closed
C25_Witness ==
    /\ responses = <<200, 503>>
    /\ stopAt = "sleep"
    /\ pc = "loop"
    /\ closedBodies = {1, 2}

\* the positions from which retry, done being closed, reaches no send
Quiet == {"receive", "reset", "closeResp", "sleep", "loop"} \cup Returning

\* C26: after cancellation has been signalled, at most one more message is
\* ever delivered on Messages, in every interleaving: done stays closed, a
\* delivery made with done closed is of one message and leaves retry in a
\* position from which, with done closed, it stays in such positions and
\* delivers nothing.
C26_AtMostOneAfterSignal ==
    /\ [][done => done']_vars
    /\ [][done /\ received' # received =>
            /\ Len(received') = Len(received) + 1
            /\ pc' \in Quiet]_vars
    /\ [][done /\ pc \in Quiet =>
            pc' \in Quiet /\ received' = received]_vars

\* the send of the only token read was pending when Stop closed done; the
\* consumer received it afterwards, and retry has closed Messages
C26_Witness ==
    /\ stopAt = "send"
    /\ reads = 1 /\ Len(wire) = 1
    /\ Len(received) = 1
    /\ msgClosed

=============================================================================
